---- MODULE Spec2Model ----
(***************************************************************************)
(* State-machine model of the proximity tracker in                         *)
(* src/src/components/Map.tsx (the second `Map` component, lines 144-575). *)
(*                                                                         *)
(* The React state cells are the variables of the same name.  Every event  *)
(* handler is one action: it applies the handler's setState calls and then *)
(* runs the re-render / effect cascade (`Flush`) to quiescence, the way    *)
(* React flushes the passive effects of an update before the next event is *)
(* handled.  Live browser timers are kept in `intervals` (the 30 s         *)
(* setInterval of lines 238-252) and `countdowns` (the 1 s setInterval of  *)
(* lines 269-276), each with the values its callback closed over.          *)
(*                                                                         *)
(* Time is the value of Date.now() in ms, counted from a model epoch, and  *)
(* is observed on a grid of `Step` ms: a timer runs at the first grid      *)
(* instant at or after its due time (timers never run early; they may run  *)
(* late), and events that share an instant are interleaved in any order.   *)
(***************************************************************************)
EXTENDS Integers, FiniteSets, Sequences, TLC

VARIABLES
    userPosition,          \* [lat, lng] | null                 (line 146)
    destinationPosition,   \* [lat, lng] | null                 (line 149)
    distanceMeters,        \* number | null                     (line 152)
    geoError,              \* string | null                     (line 153)
    selectedDistance,      \* km                                (line 154)
    notificationsEnabled,  \* boolean                           (line 155)
    notificationInterval,  \* timer id | null                   (line 157)
    lastNotificationTime,  \* ms, 0 = unset                     (line 159)
    isNearDestination,     \* boolean                           (line 160)
    countdownSeconds,      \* number                            (line 161)
    now,                   \* Date.now()
    intervals,             \* live 30 s timers with their closures
    countdowns,            \* live 1 s timers with their closures
    intervalCleanup,       \* id the interval effect's cleanup will clear
    countdownCleanup,      \* id the countdown effect's cleanup will clear
    watching,              \* geolocation watch registered       (line 179)
    mounted,               \* component mounted
    permission,            \* Notification.permission
    sent,                  \* history: the sendNotification call of the last step
    lastEvent,             \* history: name of the last step
    lastFiredAt,           \* history: time of the latest sendNotification call, 0 = none
    snoozedUntil           \* history: now + 300000 at the latest "I'm up" click,
                           \*   0 = none since the destination was last cleared

vars == <<userPosition, destinationPosition, distanceMeters, geoError,
          selectedDistance, notificationsEnabled, notificationInterval,
          lastNotificationTime, isNearDestination, countdownSeconds, now,
          intervals, countdowns, intervalCleanup, countdownCleanup, watching,
          mounted, permission, sent, lastEvent, lastFiredAt, snoozedUntil>>

----------------------------------------------------------------------------
(* Bounds of the model *)

\* Date.now() at mount, in ms from the model epoch (any real clock value is
\* far beyond the cooldown).
StartNow == 1000000
\* Grid of observed instants, in ms.
Step == 15000
\* Number of grid instants explored after mount.
MaxSteps == 23

\* Number of grid instants explored by the lifecycle specification.
ShortSteps == 4

\* Number of grid instants explored by the fair specification.
LiveSteps == 6

MaxNow == StartNow + MaxSteps * Step
ShortMaxNow == StartNow + ShortSteps * Step
LiveMaxNow == StartNow + LiveSteps * Step

(* Program constants *)

\* `isNear ? 30000 : 60000` (line 213)
NearCooldownMs == 30000
FarCooldownMs == 60000
\* setInterval(..., 30000) (line 252)
CheckPeriodMs == 30000
\* Date.now() + 300000 (line 407)
SnoozeMs == 300000
\* setInterval(..., 1000) (line 276)
CountdownPeriodMs == 1000
\* useState<number>(5) (line 154)
DefaultDistanceKm == 5

\* null, and a present value v, of a nullable cell
NULL == <<>>
Some(v) == <<v>>
Val(o) == o[1]

\* Coordinates are [lat, lng] in hundredths of a degree.
positionA == <<1850, 7386>>

\* Positions the geolocation watch reports: at positionA, and 0.03 degrees
\* (about 3.3 km) north of it on the same meridian.
UserPoints == {positionA, <<1853, 7386>>}
\* Places the user clicks on the map.
DestPoints == {positionA}
\* Places the user clicks on the map in SpecProximity: positionA, the other
\* reported position, and a place 0.45 degrees (about 50 km) north.
WideDestPoints == {positionA, <<1853, 7386>>, <<1895, 7386>>}
\* distanceOptions = [2, 3, 4, 5, 10, 20] (line 163)
distanceOptions == {2, 3, 4, 5, 10, 20}
\* The options the user picks among in the model.
PickedOptions == {2, 5}

Abs(x) == IF x < 0 THEN -x ELSE x
Max(S) == CHOOSE x \in S : \A y \in S : y <= x
\* Math.ceil(a / b) for b > 0
CeilDiv(a, b) == IF a >= 0 THEN (a + b - 1) \div b ELSE -((-a) \div b)

\* L.LatLng.distanceTo: great-circle distance in metres on a sphere of radius
\* 6371000 m.  For two points of one meridian the haversine formula reduces to
\* R * |dLat| * pi / 180, i.e. 111195 m per degree.
distanceTo(a, b) == (Abs(a[1] - b[1]) * 111195) \div 100

----------------------------------------------------------------------------
(* The component's state as one record, for the effect cascade *)

Cur ==
    [userPosition |-> userPosition,
     destinationPosition |-> destinationPosition,
     distanceMeters |-> distanceMeters,
     geoError |-> geoError,
     selectedDistance |-> selectedDistance,
     notificationsEnabled |-> notificationsEnabled,
     notificationInterval |-> notificationInterval,
     lastNotificationTime |-> lastNotificationTime,
     isNearDestination |-> isNearDestination,
     countdownSeconds |-> countdownSeconds,
     intervals |-> intervals,
     countdowns |-> countdowns,
     intervalCleanup |-> intervalCleanup,
     countdownCleanup |-> countdownCleanup,
     sent |-> NULL]

Commit(q) ==
    /\ userPosition' = q.userPosition
    /\ destinationPosition' = q.destinationPosition
    /\ distanceMeters' = q.distanceMeters
    /\ geoError' = q.geoError
    /\ selectedDistance' = q.selectedDistance
    /\ notificationsEnabled' = q.notificationsEnabled
    /\ notificationInterval' = q.notificationInterval
    /\ lastNotificationTime' = q.lastNotificationTime
    /\ isNearDestination' = q.isNearDestination
    /\ countdownSeconds' = q.countdownSeconds
    /\ intervals' = q.intervals
    /\ countdowns' = q.countdowns
    /\ intervalCleanup' = q.intervalCleanup
    /\ countdownCleanup' = q.countdownCleanup
    /\ sent' = q.sent
    /\ lastFiredAt' = IF q.sent # NULL THEN now ELSE lastFiredAt

\* Timer ids are opaque handles: a new timer gets an id no live timer has.
NewTimerId(timers) == 1 + Max({0} \cup {i.id : i \in timers})
clearInterval(timers, id) == {i \in timers : i.id # id}

\* Mutant: sendNotification without the Notification.permission check.
sendNotificationUnchecked(q, by, t, since) ==
    [q EXCEPT !.sent = Some([by |-> by, at |-> t, since |-> since,
                             prev |-> lastFiredAt,
                             delivered |-> TRUE])]

\* sendNotification (lines 284-292): shows a Notification only when permission
\* is granted.  `by` names the caller and `since` the lastNotificationTime the
\* caller's closure held; `prev` is the time of the call before this one.
sendNotification(q, by, t, since) ==
    [q EXCEPT !.sent = Some([by |-> by, at |-> t, since |-> since,
                             prev |-> lastFiredAt,
                             delivered |-> permission = "granted"])]

----------------------------------------------------------------------------
(* Effects.  r is the state the render closed over, q the state being built, *)
(* t the value of Date.now().                                               *)

\* Mutant: the distance effect does not list selectedDistance.
DistanceDepsWithoutThreshold ==
    {"userPosition", "destinationPosition", "notificationsEnabled",
     "lastNotificationTime"}
\* Mutant: the distance effect does not list destinationPosition.
DistanceDepsWithoutDestination ==
    {"userPosition", "selectedDistance", "notificationsEnabled",
     "lastNotificationTime"}
DistanceDeps == {"userPosition", "destinationPosition", "selectedDistance",
                 "notificationsEnabled", "lastNotificationTime"}
\* Mutant: the interval effect does not list notificationsEnabled.
IntervalDepsWithoutEnabled ==
    {"destinationPosition", "userPosition", "selectedDistance"}
\* Mutant: the interval effect does not list userPosition.
IntervalDepsWithoutPosition ==
    {"notificationsEnabled", "destinationPosition", "selectedDistance"}
IntervalDeps == {"notificationsEnabled", "destinationPosition", "userPosition",
                 "selectedDistance"}
CountdownDeps == {"lastNotificationTime"}

\* Mutant: the distance effect without setDistanceMeters.
DistanceEffectNoSetDistance(r, q, t) ==
    IF r.userPosition = NULL \/ r.destinationPosition = NULL THEN q
    ELSE
      LET distance == distanceTo(r.userPosition, r.destinationPosition)
          isNear == distance <= r.selectedDistance * 1000
          fire == /\ r.notificationsEnabled
                  /\ isNear
                  /\ t - r.lastNotificationTime >= NearCooldownMs
          q1 == [q EXCEPT !.isNearDestination = isNear]
      IN IF fire
         THEN [sendNotification(q1, "effect", t, r.lastNotificationTime)
                 EXCEPT !.lastNotificationTime = t]
         ELSE q1

\* Mutant: the distance effect measures from the fixed positionA, as the
\* first version of the component does (lines 43-49).
DistanceEffectFromPositionA(r, q, t) ==
    IF r.userPosition = NULL \/ r.destinationPosition = NULL THEN q
    ELSE
      LET distance == distanceTo(positionA, r.userPosition)
          isNear == distance <= r.selectedDistance * 1000
          fire == /\ r.notificationsEnabled
                  /\ isNear
                  /\ t - r.lastNotificationTime >= NearCooldownMs
          q1 == [q EXCEPT !.distanceMeters = Some(distance),
                          !.isNearDestination = isNear]
      IN IF fire
         THEN [sendNotification(q1, "effect", t, r.lastNotificationTime)
                 EXCEPT !.lastNotificationTime = t]
         ELSE q1

\* Calculate distance and handle notifications (lines 195-226)
DistanceEffect(r, q, t) ==
    IF r.userPosition = NULL \/ r.destinationPosition = NULL THEN q
    ELSE
      LET distance == distanceTo(r.userPosition, r.destinationPosition)
          isNear == distance <= r.selectedDistance * 1000
          timeSinceLastNotification == t - r.lastNotificationTime
          cooldown == IF isNear THEN NearCooldownMs ELSE FarCooldownMs
          fire == /\ r.notificationsEnabled
                  /\ isNear
                  /\ timeSinceLastNotification >= cooldown
          q1 == [q EXCEPT !.distanceMeters = Some(distance),
                          !.isNearDestination = isNear]
      IN IF fire
         THEN [sendNotification(q1, "effect", t, r.lastNotificationTime)
                 EXCEPT !.lastNotificationTime = t]
         ELSE q1

\* Mutant: the interval effect's cleanup without clearInterval.
IntervalCleanupNoClear(q) == [q EXCEPT !.intervalCleanup = NULL]

\* Cleanup of the interval effect (lines 256-258)
IntervalCleanup(q) ==
    IF q.intervalCleanup = NULL THEN q
    ELSE [q EXCEPT !.intervals = clearInterval(@, Val(q.intervalCleanup)),
                   !.intervalCleanup = NULL]

\* Mutant: the interval effect without its early return (lines 230-236): the
\* interval is created whether or not notifications are enabled and a
\* destination is set.
IntervalEffectNoGuard(r, q, t) ==
    LET id == NewTimerId(q.intervals)
    IN [q EXCEPT !.intervals = @ \cup
                     {[id |-> id, due |-> t + CheckPeriodMs,
                       userPosition |-> r.userPosition,
                       destinationPosition |-> r.destinationPosition,
                       selectedDistance |-> r.selectedDistance]},
                 !.notificationInterval = Some(id),
                 !.intervalCleanup = Some(id)]

\* Set up notification interval (lines 229-264)
IntervalEffect(r, q, t) ==
    IF ~r.notificationsEnabled \/ r.destinationPosition = NULL
    THEN IF r.notificationInterval # NULL
         THEN [q EXCEPT !.intervals = clearInterval(@, Val(r.notificationInterval)),
                        !.notificationInterval = NULL]
         ELSE q
    ELSE LET id == NewTimerId(q.intervals)
         IN [q EXCEPT !.intervals = @ \cup
                          {[id |-> id, due |-> t + CheckPeriodMs,
                            userPosition |-> r.userPosition,
                            destinationPosition |-> r.destinationPosition,
                            selectedDistance |-> r.selectedDistance]},
                      !.notificationInterval = Some(id),
                      !.intervalCleanup = Some(id)]

\* Cleanup of the countdown effect (line 278)
CountdownCleanup(q) ==
    IF q.countdownCleanup = NULL THEN q
    ELSE [q EXCEPT !.countdowns = clearInterval(@, Val(q.countdownCleanup)),
                   !.countdownCleanup = NULL]

\* Countdown timer effect (lines 267-282)
CountdownEffect(r, q, t) ==
    IF r.lastNotificationTime > t
    THEN LET id == NewTimerId(q.countdowns)
         IN [q EXCEPT !.countdowns = @ \cup
                          {[id |-> id, due |-> t + CountdownPeriodMs,
                            lastNotificationTime |-> r.lastNotificationTime]},
                      !.countdownCleanup = Some(id)]
    ELSE [q EXCEPT !.countdownSeconds = 0]

\* One commit: the cleanups of every effect whose dependencies changed, then
\* the bodies of those effects in declaration order, all reading the state of
\* the render; the state they set is rendered next, until nothing changes.
RECURSIVE Flush(_, _, _)
Flush(q, changed, t) ==
    IF changed \cap (DistanceDeps \cup IntervalDeps \cup CountdownDeps) = {}
    THEN q
    ELSE
      LET r == q
          c1 == IF changed \cap IntervalDeps # {} THEN IntervalCleanup(q) ELSE q
          c2 == IF changed \cap CountdownDeps # {} THEN CountdownCleanup(c1) ELSE c1
          e1 == IF changed \cap DistanceDeps # {} THEN DistanceEffect(r, c2, t) ELSE c2
          e2 == IF changed \cap IntervalDeps # {} THEN IntervalEffect(r, e1, t) ELSE e1
          e3 == IF changed \cap CountdownDeps # {} THEN CountdownEffect(r, e2, t) ELSE e2
          next == IF e3.lastNotificationTime # r.lastNotificationTime
                  THEN {"lastNotificationTime"} ELSE {}
      IN Flush(e3, next, t)

----------------------------------------------------------------------------
(* Initial state: the component after its first render and mount effects.   *)
(* The geolocation watch is registered (lines 173-192); the distance effect *)
(* returns early, the interval effect finds nothing to clear and the        *)
(* countdown effect sets countdownSeconds to 0.                             *)

InitWith(granted) ==
    /\ userPosition = NULL
    /\ destinationPosition = NULL
    /\ distanceMeters = NULL
    /\ geoError = NULL
    /\ selectedDistance = DefaultDistanceKm
    /\ notificationsEnabled = TRUE
    /\ notificationInterval = NULL
    /\ lastNotificationTime = 0
    /\ isNearDestination = FALSE
    /\ countdownSeconds = 0
    /\ now = StartNow
    /\ intervals = {}
    /\ countdowns = {}
    /\ intervalCleanup = NULL
    /\ countdownCleanup = NULL
    /\ watching = TRUE
    /\ mounted = TRUE
    /\ permission = granted
    /\ sent = NULL
    /\ lastEvent = "mount"
    /\ lastFiredAt = 0
    /\ snoozedUntil = 0

\* Notification permission was granted on an earlier visit.
Init == InitWith("granted")
\* Notification permission has not been asked for yet.
InitLifecycle == InitWith("default")

----------------------------------------------------------------------------
(* Actions *)

\* Mutant: the success callback without setGeoError(null).
PositionUpdateKeepsError ==
    /\ mounted /\ watching
    /\ \E p \in UserPoints :
         Commit(Flush([Cur EXCEPT !.userPosition = p],
                      {"userPosition"}, now))
    /\ lastEvent' = "position"
    /\ snoozedUntil' = snoozedUntil
    /\ UNCHANGED <<now, watching, mounted, permission>>

\* watchPosition success callback (lines 180-184).  setUserPosition gets a new
\* array each time, so the effects depending on userPosition always re-run.
PositionUpdate ==
    /\ mounted /\ watching
    /\ \E p \in UserPoints :
         Commit(Flush([Cur EXCEPT !.userPosition = p, !.geoError = NULL],
                      {"userPosition"}, now))
    /\ lastEvent' = "position"
    /\ snoozedUntil' = snoozedUntil
    /\ UNCHANGED <<now, watching, mounted, permission>>

\* watchPosition error callback (lines 185-187)
PositionError ==
    /\ mounted /\ watching
    /\ Commit([Cur EXCEPT !.geoError = Some("Failed to retrieve position")])
    /\ lastEvent' = "positionError"
    /\ snoozedUntil' = snoozedUntil
    /\ UNCHANGED <<now, watching, mounted, permission>>

\* handleMapClick (lines 294-296)
handleMapClick ==
    /\ mounted
    /\ \E d \in DestPoints :
         Commit(Flush([Cur EXCEPT !.destinationPosition = d],
                      {"destinationPosition"}, now))
    /\ lastEvent' = "mapClick"
    /\ snoozedUntil' = snoozedUntil
    /\ UNCHANGED <<now, watching, mounted, permission>>

\* handleMapClick (lines 294-296) with a click anywhere in WideDestPoints
handleMapClickAnywhere ==
    /\ mounted
    /\ \E d \in WideDestPoints :
         Commit(Flush([Cur EXCEPT !.destinationPosition = d],
                      {"destinationPosition"}, now))
    /\ lastEvent' = "mapClick"
    /\ snoozedUntil' = snoozedUntil
    /\ UNCHANGED <<now, watching, mounted, permission>>

\* Mutant: resetDestination without setLastNotificationTime(0).
resetDestinationKeepsTimer ==
    /\ mounted
    /\ destinationPosition # NULL
    /\ Commit(Flush([Cur EXCEPT !.destinationPosition = NULL,
                                !.distanceMeters = NULL,
                                !.isNearDestination = FALSE],
                    {"destinationPosition"}, now))
    /\ lastEvent' = "reset"
    /\ snoozedUntil' = 0
    /\ UNCHANGED <<now, watching, mounted, permission>>

\* resetDestination (lines 298-303); the button is rendered only while a
\* destination is set (line 391).
resetDestination ==
    /\ mounted
    /\ destinationPosition # NULL
    /\ Commit(Flush([Cur EXCEPT !.destinationPosition = NULL,
                                !.distanceMeters = NULL,
                                !.isNearDestination = FALSE,
                                !.lastNotificationTime = 0],
                    {"destinationPosition"} \cup
                      (IF lastNotificationTime # 0
                       THEN {"lastNotificationTime"} ELSE {}),
                    now))
    /\ lastEvent' = "reset"
    /\ snoozedUntil' = 0
    /\ UNCHANGED <<now, watching, mounted, permission>>

\* toggleNotifications (lines 305-307)
toggleNotifications ==
    /\ mounted
    /\ Commit(Flush([Cur EXCEPT !.notificationsEnabled = ~notificationsEnabled],
                    {"notificationsEnabled"}, now))
    /\ lastEvent' = "toggle"
    /\ snoozedUntil' = snoozedUntil
    /\ UNCHANGED <<now, watching, mounted, permission>>

\* Mutant: handleDistanceChange without setLastNotificationTime(0).
handleDistanceChangeKeepsTimer ==
    /\ mounted
    /\ \E km \in PickedOptions \ {selectedDistance} :
         Commit(Flush([Cur EXCEPT !.selectedDistance = km],
                      {"selectedDistance"}, now))
    /\ lastEvent' = "threshold"
    /\ snoozedUntil' = snoozedUntil
    /\ UNCHANGED <<now, watching, mounted, permission>>

\* handleDistanceChange (lines 309-312); the select's onChange (line 364)
\* reports a value other than the one shown.
handleDistanceChange ==
    /\ mounted
    /\ \E km \in PickedOptions \ {selectedDistance} :
         Commit(Flush([Cur EXCEPT !.selectedDistance = km,
                                  !.lastNotificationTime = 0],
                      {"selectedDistance"} \cup
                        (IF lastNotificationTime # 0
                         THEN {"lastNotificationTime"} ELSE {}),
                      now))
    /\ lastEvent' = "threshold"
    /\ snoozedUntil' = snoozedUntil
    /\ UNCHANGED <<now, watching, mounted, permission>>

\* The enabled "I'm up (5 min)" button (lines 402-413)
ImUp ==
    /\ mounted
    /\ destinationPosition # NULL
    /\ notificationsEnabled
    /\ countdownSeconds = 0
    /\ Commit(Flush([Cur EXCEPT !.lastNotificationTime = now + SnoozeMs],
                    IF lastNotificationTime # now + SnoozeMs
                    THEN {"lastNotificationTime"} ELSE {},
                    now))
    /\ lastEvent' = "snooze"
    /\ snoozedUntil' = now + SnoozeMs
    /\ UNCHANGED <<now, watching, mounted, permission>>

\* Mutant: the 30 s timer runs once (a setTimeout in place of setInterval).
IntervalTickOnce ==
    /\ \E i \in intervals :
         /\ i.due <= now
         /\ LET q0 == [Cur EXCEPT !.intervals = @ \ {i}]
                near == /\ i.userPosition # NULL
                        /\ i.destinationPosition # NULL
                        /\ distanceTo(i.userPosition, i.destinationPosition)
                             <= i.selectedDistance * 1000
                q1 == IF near
                      THEN [sendNotification(q0, "tick", now, lastNotificationTime)
                              EXCEPT !.lastNotificationTime = now]
                      ELSE q0
            IN Commit(Flush(q1,
                            IF q1.lastNotificationTime # lastNotificationTime
                            THEN {"lastNotificationTime"} ELSE {},
                            now))
    /\ lastEvent' = "tick"
    /\ snoozedUntil' = snoozedUntil
    /\ UNCHANGED <<now, watching, mounted, permission>>

\* The 30 s setInterval callback (lines 238-252) of a live timer
IntervalTick ==
    /\ \E i \in intervals :
         /\ i.due <= now
         /\ LET q0 == [Cur EXCEPT !.intervals =
                          (@ \ {i}) \cup {[i EXCEPT !.due = now + CheckPeriodMs]}]
                near == /\ i.userPosition # NULL
                        /\ i.destinationPosition # NULL
                        /\ distanceTo(i.userPosition, i.destinationPosition)
                             <= i.selectedDistance * 1000
                q1 == IF near
                      THEN [sendNotification(q0, "tick", now, lastNotificationTime)
                              EXCEPT !.lastNotificationTime = now]
                      ELSE q0
            IN Commit(Flush(q1,
                            IF q1.lastNotificationTime # lastNotificationTime
                            THEN {"lastNotificationTime"} ELSE {},
                            now))
    /\ lastEvent' = "tick"
    /\ snoozedUntil' = snoozedUntil
    /\ UNCHANGED <<now, watching, mounted, permission>>

\* Mutant: the countdown callback clears lastNotificationTime once the
\* countdown has run out.
CountdownTickClearsTimer ==
    /\ \E c \in countdowns :
         /\ c.due <= now
         /\ LET remaining == CeilDiv(c.lastNotificationTime - now, 1000)
                q0 == [Cur EXCEPT
                         !.countdowns =
                            (@ \ {c}) \cup {[c EXCEPT !.due = now + CountdownPeriodMs]},
                         !.countdownSeconds =
                            IF remaining > 0 THEN remaining ELSE 0,
                         !.lastNotificationTime =
                            IF remaining > 0 THEN @ ELSE 0]
            IN Commit(Flush(q0,
                            IF q0.lastNotificationTime # lastNotificationTime
                            THEN {"lastNotificationTime"} ELSE {},
                            now))
    /\ lastEvent' = "countdown"
    /\ snoozedUntil' = snoozedUntil
    /\ UNCHANGED <<now, watching, mounted, permission>>

\* The 1 s setInterval callback (lines 269-276) of a live timer
CountdownTick ==
    /\ \E c \in countdowns :
         /\ c.due <= now
         /\ LET remaining == CeilDiv(c.lastNotificationTime - now, 1000)
            IN Commit([Cur EXCEPT
                         !.countdowns =
                            (@ \ {c}) \cup {[c EXCEPT !.due = now + CountdownPeriodMs]},
                         !.countdownSeconds =
                            IF remaining > 0 THEN remaining ELSE 0])
    /\ lastEvent' = "countdown"
    /\ snoozedUntil' = snoozedUntil
    /\ UNCHANGED <<now, watching, mounted, permission>>

\* The user answers the permission prompt of Notification.requestPermission()
\* (lines 166-170)
PermissionAnswer ==
    /\ permission = "default"
    /\ \E v \in {"granted", "denied"} : permission' = v
    /\ lastEvent' = "permission"
    /\ sent' = NULL
    /\ UNCHANGED <<userPosition, destinationPosition, distanceMeters, geoError,
                   selectedDistance, notificationsEnabled, notificationInterval,
                   lastNotificationTime, isNearDestination, countdownSeconds,
                   now, intervals, countdowns, intervalCleanup,
                   countdownCleanup, watching, mounted, lastFiredAt,
                   snoozedUntil>>

\* Unmount: every effect's cleanup runs (lines 191, 256-258, 278)
Unmount ==
    /\ mounted
    /\ mounted' = FALSE
    /\ watching' = FALSE
    /\ Commit(CountdownCleanup(IntervalCleanup(Cur)))
    /\ lastEvent' = "unmount"
    /\ snoozedUntil' = snoozedUntil
    /\ UNCHANGED <<now, permission>>

\* Time passes to the next grid instant, once every timer due by now has run.
AdvanceTo(limit) ==
    /\ mounted
    /\ now + Step <= limit
    /\ \A i \in intervals \cup countdowns : i.due > now
    /\ now' = now + Step
    /\ lastEvent' = "advance"
    /\ sent' = NULL
    /\ UNCHANGED <<userPosition, destinationPosition, distanceMeters, geoError,
                   selectedDistance, notificationsEnabled, notificationInterval,
                   lastNotificationTime, isNearDestination, countdownSeconds,
                   intervals, countdowns, intervalCleanup, countdownCleanup,
                   watching, mounted, permission, lastFiredAt, snoozedUntil>>

Advance == AdvanceTo(MaxNow)
AdvanceShort == AdvanceTo(ShortMaxNow)

\* The user's input, the position stream and the timers
Core ==
    \/ PositionUpdate
    \/ handleMapClick
    \/ resetDestination
    \/ toggleNotifications
    \/ handleDistanceChange
    \/ ImUp
    \/ IntervalTick
    \/ CountdownTick

\* The tracker of a mounted component whose notification permission was
\* granted before and whose position source does not fail, over MaxSteps
\* instants (long enough for a snooze to run out).
Next == Core \/ Advance

Spec == Init /\ [][Next]_vars

\* The whole lifecycle: the permission prompt, position errors and unmount as
\* well, over ShortSteps instants.
NextLifecycle ==
    \/ Core
    \/ PositionError
    \/ PermissionAnswer
    \/ Unmount
    \/ AdvanceShort

SpecLifecycle == InitLifecycle /\ [][NextLifecycle]_vars

\* The tracker over ShortSteps instants with destinations near and far, for
\* the derived values distanceMeters and isNearDestination.
NextProximity ==
    \/ PositionUpdate
    \/ handleMapClickAnywhere
    \/ resetDestination
    \/ toggleNotifications
    \/ handleDistanceChange
    \/ ImUp
    \/ IntervalTick
    \/ CountdownTick
    \/ AdvanceShort

SpecProximity == Init /\ [][NextProximity]_vars

\* The tracker over LiveSteps instants, with the fairness the browser's event
\* loop gives: a timer callback that is due runs, and time goes on.  The
\* user's input and the position stream are not fair: they may stop.
AdvanceLive == AdvanceTo(LiveMaxNow)
NextLive == Core \/ AdvanceLive
SpecLive ==
    /\ Init
    /\ [][NextLive]_vars
    /\ WF_vars(IntervalTick)
    /\ WF_vars(CountdownTick)
    /\ WF_vars(AdvanceLive)

----------------------------------------------------------------------------
(* Properties *)

Fired == sent # NULL
FiredBy(who) == sent # NULL /\ Val(sent).by = who
BothPresent == userPosition # NULL /\ destinationPosition # NULL
WithinThreshold ==
    /\ BothPresent
    /\ distanceTo(userPosition, destinationPosition) <= selectedDistance * 1000

\* C1 (as claimed): while a snooze is active, from the "I'm up" click until
\* now >= click + 300000 with no resetDestination in between, no step fires a
\* notification.
C1_NoFiringWhileSnoozed == Fired => now >= snoozedUntil

\* C2 (as claimed): every firing happens in a state where lastNotificationTime
\* is unset (0) or at least 30000 ms in the past.
C2_FiringOnlyAfterCooldown ==
    Fired => \/ Val(sent).since = 0
             \/ Val(sent).at - Val(sent).since >= NearCooldownMs

\* C3: a notification is fired only while notifications are enabled, the user
\* position and the destination are both present and the distance between them
\* is at most selectedDistance * 1000 m.
C3_FiringOnlyWhenEnabledAndNear ==
    Fired => notificationsEnabled /\ WithinThreshold

\* C3 witness: the periodic tick fired after the threshold was lowered to 2 km.
C3_Witness == FiredBy("tick") /\ selectedDistance = 2

\* C4: isNearDestination is true exactly when distanceMeters is present and at
\* most selectedDistance * 1000.
C4_IsNearMatchesDistance ==
    isNearDestination <=>
        (distanceMeters # NULL /\ Val(distanceMeters) <= selectedDistance * 1000)

\* C4 witness: a threshold change has just turned a far user into a near one.
C4_Witness ==
    /\ lastEvent = "threshold"
    /\ isNearDestination
    /\ Val(distanceMeters) > 2000

\* C5: distanceMeters is null exactly when the user position or the
\* destination is absent.
C5_DistanceNullIffAbsent == (distanceMeters = NULL) <=> ~BothPresent

\* C5 witness: the destination was cleared while a position was known.
C5_Witness == lastEvent = "reset" /\ userPosition # NULL /\ distanceMeters = NULL

\* C6: every resetDestination step ends with no destination, distanceMeters
\* null, isNearDestination false, lastNotificationTime unset and no snooze
\* running, and leaves selectedDistance, notificationsEnabled and userPosition
\* as they were.
C6_ResetEffectAndFrame ==
    [][resetDestination =>
         /\ destinationPosition' = NULL
         /\ distanceMeters' = NULL
         /\ isNearDestination' = FALSE
         /\ lastNotificationTime' = 0
         /\ countdowns' = {}
         /\ countdownSeconds' = 0
         /\ UNCHANGED <<selectedDistance, notificationsEnabled, userPosition>>]_vars

\* C6 witness: a reset taken after a notification had fired, with a position
\* known, notifications on and the threshold at 2 km.
C6_Witness ==
    /\ lastEvent = "reset"
    /\ userPosition # NULL
    /\ selectedDistance = 2
    /\ notificationsEnabled
    /\ lastNotificationTime = 0
    /\ lastFiredAt # 0

\* C7: after a threshold change, if notifications are enabled, position and
\* destination are present, no snooze is active and the user is within the new
\* threshold, the step has fired a notification from the recomputation.
C7_ThresholdChangeFires ==
    (/\ lastEvent = "threshold"
     /\ notificationsEnabled
     /\ WithinThreshold
     /\ now >= snoozedUntil)
    => (FiredBy("effect") /\ Val(sent).at = now)

\* C7 witness: the threshold change fired less than 30000 ms after the
\* previous notification.
C7_Witness ==
    /\ lastEvent = "threshold"
    /\ Fired
    /\ Val(sent).prev # 0
    /\ Val(sent).at - Val(sent).prev < NearCooldownMs

\* C8 (as claimed): a position update arriving once now >= snoozedUntil, with
\* notifications enabled, the user near and at least 30000 ms since the last
\* notification actually fired, fires a notification.
C8_PositionUpdateFiresAfterSnooze ==
    (/\ lastEvent = "position"
     /\ notificationsEnabled
     /\ WithinThreshold
     /\ snoozedUntil # 0
     /\ now >= snoozedUntil
     /\ now - lastFiredAt >= NearCooldownMs)
    => Fired

\* Steps taken by the user or the position stream, and steps taken by time
UserEvents == {"position", "mapClick", "reset", "toggle", "threshold", "snooze"}
TimeEvents == {"advance", "tick", "countdown"}
\* The instants of the fair specification that leave time for one period
Instants ==
    {t \in {StartNow + k * Step : k \in 0..LiveSteps} :
        t + CheckPeriodMs + Step <= LiveMaxNow}

\* The user rests inside the threshold with a destination set, notifications
\* enabled and no snooze active.
Stationary ==
    /\ mounted
    /\ notificationsEnabled
    /\ WithinThreshold
    /\ now >= snoozedUntil

\* C9: from every instant k at which the user rests inside the threshold
\* (destination set, notifications enabled, no snooze active) and that leaves
\* time for one period, the 30 s tick fires a notification after k, unless
\* the user or the position stream acts first; as this holds from every such
\* instant, the tick keeps firing for as long as the conditions hold.
C9_TickFiresWhileStationary ==
    \A k \in Instants :
        (/\ Stationary
         /\ now = k
         /\ lastEvent \in TimeEvents)
        ~> (\/ FiredBy("tick") /\ Val(sent).at > k
            \/ lastEvent \in UserEvents)

\* C9 witness: the tick fired a further notification one period after the
\* previous one, which was itself fired by a tick, with the user at rest.
C9_Witness ==
    /\ FiredBy("tick")
    /\ Stationary
    /\ Val(sent).prev # 0
    /\ Val(sent).at - Val(sent).prev >= CheckPeriodMs
    /\ Val(sent).at >= StartNow + 2 * CheckPeriodMs

\* C10 (as claimed): after resetDestination and after unmount, no 30 s timer
\* and no countdown timer is live and the position watch is released.
C10_AllReleasedOnResetOrUnmount ==
    (lastEvent = "reset" \/ ~mounted)
    => (intervals = {} /\ countdowns = {} /\ ~watching)

\* C10 (amended): while no destination is set no 30 s timer and no countdown
\* timer is live; after unmount no timer is live and the position watch is
\* released.  (The watch stays registered across resetDestination.)
C10_TicksReleasedOnResetAllOnUnmount ==
    /\ destinationPosition = NULL => (intervals = {} /\ countdowns = {})
    /\ ~mounted => (intervals = {} /\ countdowns = {} /\ ~watching)

\* C10 witness: the component was unmounted while a destination was set,
\* notifications were on and a snooze was counting down.
C10_Witness ==
    /\ lastEvent = "unmount"
    /\ destinationPosition # NULL
    /\ notificationsEnabled
    /\ lastNotificationTime > now

\* C11: a countdown tick changes nothing but the displayed countdown (and
\* its own timer's next due time): lastNotificationTime, distanceMeters,
\* isNearDestination, the positions, the threshold, the enabled flag and the
\* 30 s timers stay as they were, and the step fires no notification.
C11_CountdownTickReadOnly ==
    [][CountdownTick =>
         /\ sent' = NULL
         /\ UNCHANGED <<lastNotificationTime, distanceMeters, isNearDestination,
                        userPosition, destinationPosition, selectedDistance,
                        notificationsEnabled, notificationInterval, intervals,
                        intervalCleanup, countdownCleanup, geoError>>]_vars

\* C11 witness: a countdown tick has just shown a running snooze of a near
\* user.
C11_Witness ==
    /\ lastEvent = "countdown"
    /\ countdownSeconds > 0
    /\ isNearDestination
    /\ notificationsEnabled

\* The "I'm up (5 min)" button is rendered enabled (lines 402-404).
ImUpEnabled ==
    /\ mounted
    /\ destinationPosition # NULL
    /\ notificationsEnabled
    /\ countdownSeconds = 0

\* C12 (as claimed): in every state in which a snooze is active
\* (now < snoozedUntil) or no destination is set, the snooze action cannot be
\* taken.
C12_SnoozeDisabledWhileSnoozed ==
    (now < snoozedUntil \/ destinationPosition = NULL) => ~ImUpEnabled

\* C13 (as claimed): after a position error and until the next position, the
\* position counts as absent: distanceMeters is null, isNearDestination is
\* false and nothing fires.  geoError is set by the error and cleared by the
\* next position, so it marks exactly those states.
C13_ErrorMakesPositionAbsent ==
    geoError # NULL =>
        /\ distanceMeters = NULL
        /\ ~isNearDestination
        /\ ~Fired

\* C14: a position error sets the error message and nothing else (position,
\* destination, threshold, enabled flag, derived values and timers stay);
\* with the message showing, map click, threshold change, reset and toggle
\* still take effect and leave the message; and a position update leaves the
\* message cleared.
C14_ErrorOnlySetsMessage ==
    /\ [][PositionError =>
            /\ geoError' # NULL
            /\ sent' = NULL
            /\ UNCHANGED <<userPosition, destinationPosition, distanceMeters,
                           selectedDistance, notificationsEnabled,
                           notificationInterval, lastNotificationTime,
                           isNearDestination, countdownSeconds, intervals,
                           countdowns, intervalCleanup, countdownCleanup,
                           watching>>]_vars
    /\ [][(geoError # NULL /\ handleMapClick) =>
            (destinationPosition' # NULL /\ geoError' = geoError)]_vars
    /\ [][(geoError # NULL /\ handleDistanceChange) =>
            (selectedDistance' # selectedDistance /\ geoError' = geoError)]_vars
    /\ [][(geoError # NULL /\ resetDestination) =>
            (destinationPosition' = NULL /\ geoError' = geoError)]_vars
    /\ [][(geoError # NULL /\ toggleNotifications) =>
            (notificationsEnabled' = ~notificationsEnabled
             /\ geoError' = geoError)]_vars
    /\ [][PositionUpdate => geoError' = NULL]_vars

\* C14 witness: with the error message showing and both timers live, the
\* threshold has just been changed.
C14_Witness ==
    /\ geoError # NULL
    /\ lastEvent = "threshold"
    /\ destinationPosition # NULL
    /\ intervals # {}

\* C15: distanceMeters and isNearDestination are a function of the current
\* (userPosition, destinationPosition, selectedDistance) alone, whatever the
\* order of the events that led there: null and false when a position is
\* absent, else the distance between the two and whether it is within the
\* threshold.  A position update that repeats the coordinates leaves both
\* unchanged.
C15_DerivedValuesAreFunction ==
    /\ [](IF BothPresent
          THEN /\ distanceMeters =
                    Some(distanceTo(userPosition, destinationPosition))
               /\ isNearDestination = WithinThreshold
          ELSE /\ distanceMeters = NULL
               /\ ~isNearDestination)
    /\ [][(PositionUpdate /\ userPosition' = userPosition) =>
            UNCHANGED <<distanceMeters, isNearDestination>>]_vars

\* C15 witness: the user is far from the far destination under the 5 km
\* threshold, a position update having come after the click on the map.
C15_Witness ==
    /\ lastEvent = "position"
    /\ destinationPosition = <<1895, 7386>>
    /\ distanceMeters # NULL
    /\ Val(distanceMeters) > selectedDistance * 1000
    /\ ~isNearDestination
    /\ lastFiredAt = 0

C16_LastNotifiedAtIsFiringTime ==
    /\ Fired => (Val(sent).at = now /\ lastNotificationTime = now)
    /\ lastNotificationTime \in {0, lastFiredAt}

\* C17: while notification permission is not granted, a firing delivers no
\* notification and sets no error message, and distanceMeters and
\* isNearDestination are still the values computed from the positions and the
\* threshold, as they are when permission is granted.
C17_NoDeliveryWithoutPermission ==
    /\ []((permission # "granted" /\ Fired) => ~Val(sent).delivered)
    /\ [][(permission # "granted" /\ sent' # NULL) =>
            (geoError' = NULL \/ geoError' = geoError)]_vars
    /\ [](permission # "granted" =>
            IF BothPresent
            THEN /\ distanceMeters =
                      Some(distanceTo(userPosition, destinationPosition))
                 /\ isNearDestination = WithinThreshold
            ELSE /\ distanceMeters = NULL
                 /\ ~isNearDestination)

\* C17 witness: permission was denied and the firing decision has just been
\* taken for a near user, with nothing delivered.
C17_Witness ==
    /\ permission = "denied"
    /\ Fired
    /\ ~Val(sent).delivered
    /\ isNearDestination
    /\ distanceMeters # NULL

\* C19: two consecutive firings are at least 30000 ms apart unless
\* lastNotificationTime was cleared between them, and it is cleared only by a
\* threshold change or a reset of the destination.  A firing records the time
\* of the firing before it (prev) and the lastNotificationTime it found
\* (since), which is 0 only if the field was cleared after that firing.  So
\* firings with no threshold change and no reset between them are 30000 ms
\* apart, in every interleaving (a new destination click needs no exception).
C19_ConsecutiveFiringsApart ==
    /\ []((Fired /\ Val(sent).prev # 0 /\ Val(sent).since # 0) =>
             Val(sent).at - Val(sent).prev >= NearCooldownMs)
    /\ [][(lastNotificationTime # 0 /\ lastNotificationTime' = 0) =>
             lastEvent' \in {"threshold", "reset"}]_vars

\* C19 witness: the tick fires exactly 30000 ms after the firing before it,
\* nothing having written lastNotificationTime in between.
C19_Witness ==
    /\ FiredBy("tick")
    /\ Val(sent).prev # 0
    /\ Val(sent).since = Val(sent).prev
    /\ Val(sent).at - Val(sent).prev = NearCooldownMs

\* C20: at most one 30 s interval timer is live, and none while notifications
\* are disabled or no destination is set: whenever the enabled flag, the
\* destination, the position or the threshold changes, the previous interval
\* is cleared before the next is created.  The live one is the one the
\* component holds in notificationInterval.
C20_AtMostOneInterval ==
    /\ Cardinality(intervals) <= 1
    /\ (~notificationsEnabled \/ destinationPosition = NULL) => intervals = {}
    /\ \A i \in intervals :
         /\ notificationInterval = Some(i.id)
         /\ intervalCleanup = Some(i.id)

\* C20 witness: one interval is live after it was replaced at a later instant
\* by a position update.
C20_Witness ==
    /\ lastEvent = "position"
    /\ Cardinality(intervals) = 1
    /\ now > StartNow
    /\ \A i \in intervals : i.due = now + CheckPeriodMs /\ i.id = 1

====
